---- MODULE Spec2Model ----
(***************************************************************************)
(* Spotter: Hours-of-Service duty-status engine.                           *)
(*                                                                         *)
(* State: the Trip, LogEntry, DutyStatusLog, DailyLog and Violation       *)
(* tables, the driver profiles and the wall clock.  One action per HTTP    *)
(* handler or management command.                                          *)
(*                                                                         *)
(* Time is counted in seconds since 00:00:00 UTC of day 0.  A handler      *)
(* that reads timezone.now() again after a database write gets a later     *)
(* instant (one second later here); a handler that creates rows stamped   *)
(* with the clock leaves it just after its last read, so that two such     *)
(* handlers never share an instant.  TIME_ZONE is UTC, so date.today() and          *)
(* timezone.now().date() agree.  Decimal(4,2) hour fields are integers in  *)
(* hundredths of an hour.                                                  *)
(***************************************************************************)
EXTENDS Integers, Sequences, FiniteSets, TLC

VARIABLES
    now,        \* the wall clock, seconds since day 0 00:00:00 UTC
    advances,   \* how many times the clock has been moved between requests
    profiles,   \* driver -> DriverProfile row, or NoProfile
    trips,      \* Trip table: sequence of rows, pk = index
    entries,    \* LogEntry table: sequence of rows, pk = index
    dutyLogs,   \* DutyStatusLog table: sequence of rows
    dailyLogs,  \* DailyLog table: sequence of rows, pk = index
    violations, \* Violation table: sequence of rows, pk = index
    ev          \* the last request / command run and its outcome

vars == <<now, advances, profiles, trips, entries, dutyLogs, dailyLogs, violations, ev>>

----------------------------------------------------------------------------
(* Bounds of the model *)

MaxTrips == 1
\* the trips of the table once the automatic trip of a later day is added
MaxCurrentTrips == 2
MaxEntries == 2
MaxDutyLogs == 2
MaxDailyLogs == 2
MaxViolations == 2
MaxAdvances == 1

(* Program constants *)

SecondsPerDay == 86400
SecondsPerHour == 3600
AutoCloseWindow == 300
AutoSwitchMin == 3600
AutoSwitchMax == 3900
DrivingLimit == 11
OnDutyLimit == 14
RestRequirement == 10
Cycle70Hours == 70
Cycle60Hours == 60

Null == -1
NoAttribute == {}

Drivers == {"d1", "d2"}
TRIP_STATUS == {"planning", "active", "completed", "cancelled"}
CYCLE_CHOICES == {"70_8", "60_7"}
DUTY_STATUS == {"off_duty", "sleeper_berth", "driving", "on_duty_not_driving"}

----------------------------------------------------------------------------
(* datetime helpers *)

DateOf(t) == t \div SecondsPerDay
TimeOf(t) == t % SecondsPerDay
Combine(date, tod) == date * SecondsPerDay + tod
Abs(x) == IF x < 0 THEN -x ELSE x

\* hours as stored in a DecimalField(max_digits=4, decimal_places=2):
\* seconds / 3600 quantized to two places, round-half-even
HoursHundredths(secs) ==
    LET q == (secs * 100) \div SecondsPerHour
        r == (secs * 100) % SecondsPerHour
    IN  IF 2 * r > SecondsPerHour THEN q + 1
        ELSE IF 2 * r < SecondsPerHour THEN q
        ELSE IF q % 2 = 0 THEN q ELSE q + 1

----------------------------------------------------------------------------
(* Rows *)

\* core.models.DriverProfile.  The model declares no `timezone` field, so
\* reading profile.timezone raises AttributeError: timezone is the set of the
\* values the attribute has, NoAttribute (empty) for the rows of this model.
Profile(autoClose, closeTime, cycle, tz) ==
    [exists |-> TRUE,
     auto_close_trip_at_midnight |-> autoClose,
     auto_close_trip_time |-> closeTime,
     default_cycle |-> cycle,
     timezone |-> tz]

\* a user without a driver_profile row (created with is_driver=False)
NoProfile == [Profile(FALSE, 0, "70_8", NoAttribute) EXCEPT !.exists = FALSE]

\* trips.models.Trip with the field defaults of the model
Trip(d, status, cycle, start, automatic, date) ==
    [driver |-> d, status |-> status, current_cycle |-> cycle,
     start_time |-> start, end_time |-> Null, total_distance |-> Null,
     available_hours |-> Cycle70Hours * 100, used_hours |-> 0,
     last_reset_date |-> date, is_automatic |-> automatic, trip_date |-> date]

\* LogEntry.save without the day added to an end before the start
save_total_hours_same_day(e) ==
    IF e.end_time # Null
    THEN [e EXCEPT !.total_hours =
            HoursHundredths(Combine(e.date, e.end_time) - Combine(e.date, e.start_time))]
    ELSE e

\* LogEntry.save: total_hours is recomputed whenever both times are set; an end
\* before the start is taken to be on the next day
save_total_hours(e) ==
    IF e.end_time # Null
    THEN LET startdt == Combine(e.date, e.start_time)
             enddt0  == Combine(e.date, e.end_time)
             enddt   == IF enddt0 < startdt THEN enddt0 + SecondsPerDay ELSE enddt0
         IN  [e EXCEPT !.total_hours = HoursHundredths(enddt - startdt)]
    ELSE e

\* logs.models.LogEntry as the handlers create it (total_hours=0, no odometer)
LogEntry(d, date, start, end, status, location, notes) ==
    save_total_hours(
        [driver |-> d, date |-> date, start_time |-> start, end_time |-> end,
         duty_status |-> status, total_hours |-> 0, location |-> location,
         notes |-> notes, odometer_start |-> Null])

\* unique_together = ['driver', 'date', 'start_time']
KeyTaken(es, d, date, start) ==
    \E i \in 1..Len(es) :
        es[i].driver = d /\ es[i].date = date /\ es[i].start_time = start

\* LogEntry.objects.create: the row is stored unless its key exists
\* (IntegrityError); ok tells which
objects_create(es, e) ==
    IF KeyTaken(es, e.driver, e.date, e.start_time)
    THEN [ok |-> FALSE, entries |-> es]
    ELSE [ok |-> TRUE, entries |-> Append(es, e)]

\* the outcome of a request or command run: the rows it made and closed, the
\* rows a command's query returned, the value a query endpoint answered
Event(op, d, pk, code, t, made, closed) ==
    [op |-> op, driver |-> d, pk |-> pk, code |-> code, t |-> t,
     made |-> made, closed |-> closed, query |-> {}, result |-> {}]

\* the outcome of a management command: the rows its query returned, the
\* rows it closed and the rows it created
CommandEvent(op, t, query, made, closed) ==
    [Event(op, "none", 0, 0, t, made, closed) EXCEPT !.query = query]

NoEvent == Event("none", "none", 0, 0, 0, {}, {})

\* get_object_or_404(Model, pk=pk, driver=request.user)
Owned(table, pk, d) == pk \in 1..Len(table) /\ table[pk].driver = d

----------------------------------------------------------------------------
(* Trip lifecycle: trips/views.py *)

\* the clock passes between requests
Tick(dt) ==
    /\ advances < MaxAdvances
    /\ now' = now + dt
    /\ advances' = advances + 1
    /\ ev' = NoEvent
    /\ UNCHANGED <<profiles, trips, entries, dutyLogs, dailyLogs, violations>>

\* POST /trips/ : TripListCreateView.perform_create, TripSerializer.create.
\* status, current_cycle and start_time are writable; available_hours and
\* used_hours are read-only and take the model defaults.
create_trip(d, status, cycle, start) ==
    /\ Len(trips) < MaxTrips
    /\ trips' = Append(trips, Trip(d, status, cycle, start, FALSE, DateOf(now)))
    /\ ev' = Event("create_trip", d, Len(trips) + 1, 201, now, {}, {})
    /\ UNCHANGED <<now, advances, profiles, entries, dutyLogs, dailyLogs, violations>>

\* PATCH /trips/<pk>/ : TripDetailView, TripSerializer.update sets every
\* validated attribute on the instance; status is a writable field
update_trip(d, pk, status) ==
    /\ pk \in 1..Len(trips)
    /\ IF ~Owned(trips, pk, d)
       THEN /\ ev' = Event("update_trip", d, pk, 404, now, {}, {})
            /\ UNCHANGED trips
       ELSE /\ trips' = [trips EXCEPT ![pk].status = status]
            /\ ev' = Event("update_trip", d, pk, 200, now, {}, {})
    /\ UNCHANGED <<now, advances, profiles, entries, dutyLogs, dailyLogs, violations>>

\* start_trip without the status check of lines 81-85
start_trip_unchecked(d, pk) ==
    /\ pk \in 1..Len(trips)
    /\ IF ~Owned(trips, pk, d)
       THEN /\ ev' = Event("start_trip", d, pk, 404, now, {}, {})
            /\ UNCHANGED <<now, trips, entries>>
       ELSE LET t1 == now + 1
                r  == objects_create(entries,
                        LogEntry(d, DateOf(t1), TimeOf(t1), Null, "driving",
                                 "Trip started", "trip started"))
            IN  /\ Len(entries) < MaxEntries
                /\ trips' = [trips EXCEPT ![pk].status = "active",
                                          ![pk].start_time = now]
                /\ entries' = r.entries
                /\ now' = t1 + 1
                /\ ev' = Event("start_trip", d, pk, IF r.ok THEN 200 ELSE 500, now,
                               IF r.ok THEN {Len(r.entries)} ELSE {}, {})
    /\ UNCHANGED <<advances, profiles, dutyLogs, dailyLogs, violations>>

\* POST /trips/<pk>/start/
start_trip(d, pk) ==
    /\ pk \in 1..Len(trips)
    /\ IF ~Owned(trips, pk, d)
       THEN /\ ev' = Event("start_trip", d, pk, 404, now, {}, {})
            /\ UNCHANGED <<now, trips, entries>>
       ELSE IF trips[pk].status # "planning"
       THEN /\ ev' = Event("start_trip", d, pk, 400, now, {}, {})
            /\ UNCHANGED <<now, trips, entries>>
       ELSE LET t1 == now + 1
                r  == objects_create(entries,
                        LogEntry(d, DateOf(t1), TimeOf(t1), Null, "driving",
                                 "Trip started", "trip started"))
            IN  /\ Len(entries) < MaxEntries
                /\ trips' = [trips EXCEPT ![pk].status = "active",
                                          ![pk].start_time = now]
                /\ entries' = r.entries
                /\ now' = t1 + 1
                /\ ev' = Event("start_trip", d, pk, IF r.ok THEN 200 ELSE 500, now,
                               IF r.ok THEN {Len(r.entries)} ELSE {}, {})
    /\ UNCHANGED <<advances, profiles, dutyLogs, dailyLogs, violations>>

\* trip.used_hours += duration : used_hours comes from the database as a
\* decimal.Decimal and duration is a float; Decimal arithmetic with a float
\* raises TypeError
DecimalPlusFloat(dec, flt) == "TypeError"

\* POST /trips/<pk>/complete/
complete_trip(d, pk) ==
    /\ pk \in 1..Len(trips)
    /\ IF ~Owned(trips, pk, d)
       THEN /\ ev' = Event("complete_trip", d, pk, 404, now, {}, {})
            /\ UNCHANGED <<now, trips, entries>>
       ELSE IF trips[pk].status # "active"
       THEN /\ ev' = Event("complete_trip", d, pk, 400, now, {}, {})
            /\ UNCHANGED <<now, trips, entries>>
       ELSE IF /\ trips[pk].start_time # Null
               /\ DecimalPlusFloat(trips[pk].used_hours,
                                   now - trips[pk].start_time) = "TypeError"
       THEN \* the exception leaves the view before trip.save()
            /\ ev' = Event("complete_trip", d, pk, 500, now, {}, {})
            /\ UNCHANGED <<now, trips, entries>>
       ELSE LET t1 == now + 1
                r  == objects_create(entries,
                        LogEntry(d, DateOf(t1), TimeOf(t1), Null, "off_duty",
                                 "Trip completed", "trip completed"))
            IN  /\ Len(entries) < MaxEntries
                /\ trips' = [trips EXCEPT ![pk].status = "completed",
                                          ![pk].end_time = now]
                /\ entries' = r.entries
                /\ now' = t1 + 1
                /\ ev' = Event("complete_trip", d, pk, IF r.ok THEN 200 ELSE 500, now,
                               IF r.ok THEN {Len(r.entries)} ELSE {}, {})
    /\ UNCHANGED <<advances, profiles, dutyLogs, dailyLogs, violations>>

\* float(total_distance) / 60 is an IEEE double: the distances (hundredths
\* of a mile) of the model whose quotient rounds to a double above the exact
\* quotient, and those whose quotient rounds below it; the quotients of the
\* other distances of the model (0, 30 and 120 miles) are exact
QuotientRoundsUp == {600, 5000}
QuotientRoundsDown == {900}

\* Trip.estimate_trip_duration: the exact quotient in 1/6000 of an hour and
\* the sign of the rounding error of the double; 0 without a distance
estimate_trip_duration(trip) ==
    IF trip.total_distance = Null \/ trip.total_distance = 0
    THEN [exact |-> 0, error |-> 0]
    ELSE [exact |-> trip.total_distance,
          error |-> IF trip.total_distance \in QuotientRoundsUp THEN 1
                    ELSE IF trip.total_distance \in QuotientRoundsDown THEN -1
                    ELSE 0]

\* Trip.calculate_hos_compliance: available_hours (a Decimal, hundredths of
\* an hour) >= estimated_trip_hours (the double), compared by exact value
calculate_hos_compliance(trip) ==
    LET estimated_trip_hours == estimate_trip_duration(trip)
        available == trip.available_hours * 60
    IN  IF available # estimated_trip_hours.exact
        THEN available > estimated_trip_hours.exact
        ELSE estimated_trip_hours.error <= 0

\* GET /trips/<pk>/compliance-check/
trip_compliance_check(d, pk) ==
    /\ pk \in 1..Len(trips)
    /\ IF ~Owned(trips, pk, d)
       THEN ev' = Event("trip_compliance_check", d, pk, 404, now, {}, {})
       ELSE ev' = [Event("trip_compliance_check", d, pk, 200, now, {}, {})
                     EXCEPT !.result =
                        {[hos_compliant |-> calculate_hos_compliance(trips[pk]),
                          estimated_trip_hours |-> estimate_trip_duration(trips[pk])]}]
    /\ UNCHANGED <<now, advances, profiles, trips, entries, dutyLogs, dailyLogs, violations>>

----------------------------------------------------------------------------
(* Automatic daily trips: trips/models.py *)

\* Trip.get_current_trip: the first active automatic trip of the driver dated
\* today, 0 when there is none
get_current_trip(ts, d, today) ==
    LET S == {pk \in 1..Len(ts) :
                /\ ts[pk].driver = d
                /\ ts[pk].status = "active"
                /\ ts[pk].is_automatic
                /\ ts[pk].trip_date = today}
    IN  IF S = {} THEN 0 ELSE CHOOSE pk \in S : \A q \in S : pk <= q

\* GET /trips/current/ : Trip.get_or_create_current_trip
get_or_create_current_trip(d) ==
    LET found == get_current_trip(trips, d, DateOf(now)) IN
    IF found # 0
    THEN /\ ev' = Event("get_or_create_current_trip", d, found, 200, now, {}, {})
         /\ UNCHANGED <<now, advances, profiles, trips, entries, dutyLogs, dailyLogs, violations>>
    ELSE LET cycle == IF ~profiles[d].exists THEN "70_8"
                      ELSE profiles[d].default_cycle
             t1 == now + 1
             t2 == now + 2
             r  == objects_create(entries,
                     LogEntry(d, DateOf(t2), TimeOf(t2), Null, "off_duty",
                              "Automatic trip created", "initial entry"))
         IN  /\ Len(trips) < MaxCurrentTrips
             /\ Len(entries) < MaxEntries
             /\ trips' = Append(trips, Trip(d, "active", cycle, t1, TRUE, DateOf(t1)))
             /\ entries' = r.entries
             /\ now' = t2 + 1
             /\ ev' = Event("get_or_create_current_trip", d, Len(trips) + 1,
                            IF r.ok THEN 200 ELSE 500, now,
                            IF r.ok THEN {Len(r.entries)} ELSE {}, {})
             /\ UNCHANGED <<advances, profiles, dutyLogs, dailyLogs, violations>>

\* Trip.should_auto_close, at instant t for a driver whose zone is tz seconds
\* east of UTC
should_auto_close(prof, tz, t) ==
    IF ~prof.auto_close_trip_at_midnight THEN FALSE
    ELSE LET now_driver_tz == t + tz
             \* replace(hour=, minute=, second=0): the close time on the local day
             auto_close_datetime ==
                 Combine(DateOf(now_driver_tz), (prof.auto_close_trip_time \div 60) * 60)
         IN  Abs(now_driver_tz - auto_close_datetime) <= AutoCloseWindow

CycleHours(cycle) == IF cycle = "70_8" THEN Cycle70Hours * 100 ELSE Cycle60Hours * 100

\* Trip.auto_close_trip on the row pk, its first clock read being acc.t.  The
\* two saves and the create are separate statements in autocommit: when the
\* create raises IntegrityError the first save stays.
auto_close_trip(acc, pk) ==
    LET t    == acc.t
        row  == acc.trips[pk]
        ts1  == [acc.trips EXCEPT ![pk].status = "completed", ![pk].end_time = t]
        r    == objects_create(acc.entries,
                  LogEntry(row.driver, DateOf(t + 1), TimeOf(t + 1), Null, "off_duty",
                           "Auto-closed trip", "automatic trip closure"))
        ts2  == [ts1 EXCEPT ![pk].available_hours = CycleHours(row.current_cycle),
                            ![pk].used_hours = 0,
                            ![pk].last_reset_date = DateOf(t + 2)]
    IN  IF ~r.ok
        THEN [acc EXCEPT !.trips = ts1, !.t = t + 3, !.closed = @ \cup {pk},
                         !.raised = TRUE]
        ELSE [acc EXCEPT !.trips = ts2, !.entries = r.entries, !.t = t + 3,
                         !.closed = @ \cup {pk}, !.made = @ \cup {Len(r.entries)},
                         !.raised = FALSE]

\* close_trips_at_midnight, the body of the loop for one trip of the query
close_one_trip(acc, pk, now_utc) ==
    LET row  == acc.trips[pk]
        prof == profiles[row.driver]
    IN  IF ~prof.exists THEN acc                           \* DoesNotExist, caught
        ELSE IF ~prof.auto_close_trip_at_midnight THEN acc \* continue
        ELSE IF prof.timezone = NoAttribute THEN acc       \* AttributeError, caught
        ELSE IF ~should_auto_close(prof, CHOOSE tz \in prof.timezone : TRUE, acc.t)
             THEN acc
        ELSE LET a1 == auto_close_trip(acc, pk) IN
             IF a1.raised THEN a1
             ELSE LET ts == Append(a1.trips,
                                Trip(row.driver, "active", prof.default_cycle,
                                     now_utc, TRUE, DateOf(now_utc)))
                      r  == objects_create(a1.entries,
                              LogEntry(row.driver, DateOf(now_utc), TimeOf(now_utc), Null,
                                       "off_duty", "", "automatic trip creation"))
                  IN  [a1 EXCEPT !.trips = ts, !.entries = r.entries,
                                 !.made = IF r.ok THEN @ \cup {Len(r.entries)} ELSE @]

RECURSIVE close_trips(_, _, _)
close_trips(acc, pks, now_utc) ==
    IF pks = <<>> THEN acc
    ELSE close_trips(close_one_trip(acc, Head(pks), now_utc), Tail(pks), now_utc)

\* the pks of a set in ascending order
RECURSIVE Ascending(_)
Ascending(S) ==
    IF S = {} THEN <<>>
    ELSE LET m == CHOOSE x \in S : \A y \in S : x <= y
         IN  <<m>> \o Ascending(S \ {m})

\* manage.py close_trips_at_midnight : Command.handle.  The query is
\* evaluated once; the rows come in primary-key order.
close_trips_at_midnight ==
    LET query == {pk \in 1..Len(trips) :
                    trips[pk].status = "active" /\ trips[pk].is_automatic}
        acc0  == [trips |-> trips, entries |-> entries, t |-> now + 1,
                  made |-> {}, closed |-> {}, raised |-> FALSE]
        acc   == close_trips(acc0, Ascending(query), now)
    IN  /\ Len(acc.trips) <= MaxCurrentTrips
        /\ Len(acc.entries) <= MaxEntries
        /\ trips' = acc.trips
        /\ entries' = acc.entries
        /\ now' = IF acc.closed = {} THEN now ELSE acc.t
        /\ ev' = CommandEvent("close_trips_at_midnight", now, query, acc.made, acc.closed)
        /\ UNCHANGED <<advances, profiles, dutyLogs, dailyLogs, violations>>

----------------------------------------------------------------------------
(* Log entries: logs/views.py, logs/serializers.py *)

\* LogEntryCreateSerializer.validate
validate_entry(start, end) == ~(end # Null /\ end <= start)

\* POST /logs/entries/ : LogEntryListCreateView.perform_create.  The date is
\* read-only and takes the model default (today); start_time and end_time are
\* the caller's.
create_log_entry(d, status, start, end) ==
    /\ Len(entries) < MaxEntries
    /\ IF ~validate_entry(start, end)
       THEN /\ ev' = Event("create_log_entry", d, 0, 400, now, {}, {})
            /\ UNCHANGED entries
       ELSE LET r == objects_create(entries,
                       LogEntry(d, DateOf(now), start, end, status, "manual", ""))
            IN  /\ entries' = r.entries
                /\ ev' = Event("create_log_entry", d, Len(entries) + 1,
                               IF r.ok THEN 201 ELSE 500, now,
                               IF r.ok THEN {Len(r.entries)} ELSE {}, {})
    /\ UNCHANGED <<now, advances, profiles, trips, dutyLogs, dailyLogs, violations>>

\* PATCH /logs/entries/<pk>/ with an end_time : LogEntryDetailView with
\* LogEntrySerializer, which validates no order of the times: LogEntry.save
\* stores the row and recomputes total_hours.  The response is then
\* serialized through get_current_duration, a method LogEntry does not have
\* (AttributeError), after the row was saved.
update_log_entry(d, pk, end) ==
    /\ pk \in 1..Len(entries)
    /\ IF ~Owned(entries, pk, d)
       THEN /\ ev' = Event("update_log_entry", d, pk, 404, now, {}, {})
            /\ UNCHANGED entries
       ELSE /\ entries' = [entries EXCEPT ![pk] =
                              save_total_hours([@ EXCEPT !.end_time = end])]
            /\ ev' = Event("update_log_entry", d, pk, 500, now, {}, {pk})
    /\ UNCHANGED <<now, advances, profiles, trips, dutyLogs, dailyLogs, violations>>

\* POST /logs/update-duty-time/ with a status and a time : the driver's entry
\* of today with that status and the latest start_time, open or closed, gets
\* the new start_time and is saved.  The local name status hides the module
\* of the status codes, so the 404 branch raises AttributeError; a start_time
\* that another row of the driver has today raises IntegrityError; after the
\* save the response is serialized through get_current_duration, which
\* LogEntry does not have (AttributeError).
update_duty_status_time(d, duty_status, new_time) ==
    LET today == DateOf(now)
        S     == {pk \in 1..Len(entries) :
                    /\ entries[pk].driver = d
                    /\ entries[pk].date = today
                    /\ entries[pk].duty_status = duty_status}
    IN  IF S = {}
        THEN /\ ev' = Event("update_duty_status_time", d, 0, 500, now, {}, {})
             /\ UNCHANGED <<now, advances, profiles, trips, entries, dutyLogs, dailyLogs, violations>>
        ELSE LET pk == CHOOSE x \in S :
                          \A y \in S : entries[x].start_time >= entries[y].start_time
                 taken == \E i \in 1..Len(entries) :
                             /\ i # pk
                             /\ entries[i].driver = d
                             /\ entries[i].date = today
                             /\ entries[i].start_time = new_time
             IN  /\ entries' = IF taken THEN entries
                               ELSE [entries EXCEPT ![pk] =
                                       save_total_hours([@ EXCEPT !.start_time = new_time])]
                 /\ ev' = Event("update_duty_status_time", d, pk, 500, now, {}, {})
                 /\ UNCHANGED <<now, advances, profiles, trips, dutyLogs, dailyLogs, violations>>

\* the rows of a LogEntry query in Meta.ordering ['-date', '-start_time']
\* (ties, which only rows of different drivers can have, by pk)
Later(es, i, j) ==
    \/ es[i].date > es[j].date
    \/ es[i].date = es[j].date /\ es[i].start_time > es[j].start_time
    \/ es[i].date = es[j].date /\ es[i].start_time = es[j].start_time /\ i < j

RECURSIVE Ordered(_, _)
Ordered(es, S) ==
    IF S = {} THEN <<>>
    ELSE LET m == CHOOSE x \in S : \A y \in S \ {x} : Later(es, x, y)
         IN  <<m>> \o Ordered(es, S \ {m})

\* auto_switch_duty_status, the body of the loop for one entry of the query
switch_one_entry(acc, pk, t) ==
    LET entry       == acc.entries[pk]
        entry_start == Combine(entry.date, entry.start_time)
        time_diff   == Abs(t - entry_start)
    IN  IF AutoSwitchMin <= time_diff /\ time_diff <= AutoSwitchMax
        THEN LET es1 == [acc.entries EXCEPT ![pk] =
                            save_total_hours([entry EXCEPT !.end_time = entry.start_time])]
                 r   == objects_create(es1,
                          LogEntry(entry.driver, DateOf(t), TimeOf(t), Null, "driving",
                                   entry.location, "auto-switched"))
             IN  [acc EXCEPT !.entries = r.entries,
                             !.closed = @ \cup {pk},
                             !.made = IF r.ok THEN @ \cup {Len(r.entries)} ELSE @]
        ELSE acc

\* the loop of the command with the error of one entry left to propagate out
\* of a transaction around the run: the rows closed and created so far are
\* rolled back and the rest of the query is not visited
RECURSIVE switch_entries_in_one_transaction(_, _, _)
switch_entries_in_one_transaction(acc, pks, t) ==
    IF pks = <<>> THEN acc
    ELSE LET a1     == switch_one_entry(acc, Head(pks), t)
             raised == Head(pks) \in a1.closed /\ a1.made = acc.made
             before == Len(a1.entries) - Cardinality(a1.made)
         IN  IF raised
             THEN [entries |-> [i \in 1..before |->
                                  IF i \in a1.closed
                                  THEN [a1.entries[i] EXCEPT !.end_time = Null]
                                  ELSE a1.entries[i]],
                   made |-> {}, closed |-> {}]
             ELSE switch_entries_in_one_transaction(a1, Tail(pks), t)

RECURSIVE switch_entries(_, _, _)
switch_entries(acc, pks, t) ==
    IF pks = <<>> THEN acc
    ELSE switch_entries(switch_one_entry(acc, Head(pks), t), Tail(pks), t)

\* the filter of the command: start_time is a TimeField, so the datetime
\* one_hour_ago is compared by its time of day
ongoing_pickup_dropoff(es, t) ==
    {pk \in 1..Len(es) :
        /\ es[pk].duty_status = "on_duty_not_driving"
        /\ es[pk].end_time = Null
        /\ es[pk].start_time <= TimeOf(t - SecondsPerHour)}

\* manage.py auto_switch_duty_status : Command.handle.  The command adds at
\* most one row for each open row the requests made, none of them one it
\* would query again.
auto_switch_duty_status ==
    LET query == ongoing_pickup_dropoff(entries, now)
        acc0  == [entries |-> entries, made |-> {}, closed |-> {}]
        acc   == switch_entries(acc0, Ordered(entries, query), now)
    IN  /\ Len(entries) <= MaxEntries
        /\ entries' = acc.entries
        /\ now' = IF acc.closed = {} THEN now ELSE now + 1
        /\ ev' = CommandEvent("auto_switch_duty_status", now, query, acc.made, acc.closed)
        /\ UNCHANGED <<advances, profiles, trips, dutyLogs, dailyLogs, violations>>

----------------------------------------------------------------------------
(* Duty status logs: core/serializers.py *)

DutyStatusLog(d, status, start, end, odometer, condition) ==
    [driver |-> d, status |-> status, start_time |-> start, end_time |-> end,
     odometer_start |-> odometer, vehicle_condition |-> condition]

\* DutyStatusLogSerializer.validate; condition is "" when the request gives
\* none
validate_duty_log(status, start, end, odometer, condition) ==
    /\ status = "driving" => odometer # Null /\ condition # ""
    /\ ~(end # Null /\ end <= start)

\* DutyStatusLogSerializer.create: a new driving log first ends the driver's
\* open driving logs at its own start_time
create_duty_status_log(d, status, start, end, odometer, condition) ==
    /\ Len(dutyLogs) < MaxDutyLogs
    /\ IF ~validate_duty_log(status, start, end, odometer, condition)
       THEN /\ ev' = Event("create_duty_status_log", d, 0, 400, now, {}, {})
            /\ UNCHANGED dutyLogs
       ELSE LET ended == {i \in 1..Len(dutyLogs) :
                            /\ status = "driving"
                            /\ dutyLogs[i].driver = d
                            /\ dutyLogs[i].status = "driving"
                            /\ dutyLogs[i].end_time = Null}
                logs1 == [i \in 1..Len(dutyLogs) |->
                            IF i \in ended
                            THEN [dutyLogs[i] EXCEPT !.end_time = start]
                            ELSE dutyLogs[i]]
            IN  /\ dutyLogs' = Append(logs1,
                                 DutyStatusLog(d, status, start, end, odometer, condition))
                /\ ev' = Event("create_duty_status_log", d, Len(dutyLogs) + 1, 201, now,
                               {Len(dutyLogs) + 1}, ended)
    /\ UNCHANGED <<now, advances, profiles, trips, entries, dailyLogs, violations>>

----------------------------------------------------------------------------
(* Daily compliance: logs/models.py, logs/views.py *)

\* logs.models.DailyLog with the field defaults of the model; the four
\* totals are in hundredths of an hour
DailyLog(d, date, driving, onDuty, offDuty, sleeper) ==
    [driver |-> d, date |-> date,
     total_on_duty_hours |-> onDuty, total_driving_hours |-> driving,
     total_off_duty_hours |-> offDuty, total_sleeper_berth_hours |-> sleeper,
     is_certified |-> FALSE, certified_at |-> Null, certified_by |-> "none"]

\* logs.models.Violation, linked to the DailyLog of primary key daily_log
Violation(d, daily_log, type, severity, resolved) ==
    [driver |-> d, daily_log |-> daily_log, violation_type |-> type,
     severity |-> severity, is_resolved |-> resolved, resolved_at |-> Null,
     resolution_notes |-> ""]

\* the sum of total_hours over the rows S of es
RECURSIVE SumHours(_, _)
SumHours(es, S) ==
    IF S = {} THEN 0
    ELSE LET i == CHOOSE x \in S : TRUE
         IN  es[i].total_hours + SumHours(es, S \ {i})

\* calculate_totals with the entries of every driver on the date
calculate_totals_any_driver(log, es) ==
    LET OnDate(status) ==
            {i \in 1..Len(es) : es[i].date = log.date /\ es[i].duty_status = status}
    IN  [log EXCEPT !.total_on_duty_hours = SumHours(es, OnDate("on_duty_not_driving")),
                    !.total_driving_hours = SumHours(es, OnDate("driving")),
                    !.total_off_duty_hours = SumHours(es, OnDate("off_duty")),
                    !.total_sleeper_berth_hours = SumHours(es, OnDate("sleeper_berth"))]

\* DailyLog.calculate_totals over the LogEntry rows es: each total is the sum
\* of total_hours of the entries of the log's driver and date that have the
\* status; total_on_duty_hours counts on_duty_not_driving only.  The float
\* sums of two-place decimals are stored back as the exact two-place sums.
calculate_totals(log, es) ==
    LET OnDate(status) ==
            {i \in 1..Len(es) : /\ es[i].driver = log.driver
                                /\ es[i].date = log.date
                                /\ es[i].duty_status = status}
    IN  [log EXCEPT !.total_on_duty_hours = SumHours(es, OnDate("on_duty_not_driving")),
                    !.total_driving_hours = SumHours(es, OnDate("driving")),
                    !.total_off_duty_hours = SumHours(es, OnDate("off_duty")),
                    !.total_sleeper_berth_hours = SumHours(es, OnDate("sleeper_berth"))]

\* is_hos_compliant with the driving limit tested by >= instead of >
is_hos_compliant_at_limit(log) ==
    IF log.total_driving_hours >= DrivingLimit * 100 THEN FALSE
    ELSE IF log.total_driving_hours + log.total_on_duty_hours > OnDutyLimit * 100 THEN FALSE
    ELSE IF log.total_off_duty_hours + log.total_sleeper_berth_hours < RestRequirement * 100
         THEN FALSE
    ELSE TRUE

\* DailyLog.is_hos_compliant; the totals are in hundredths of an hour
is_hos_compliant(log) ==
    IF log.total_driving_hours > DrivingLimit * 100 THEN FALSE
    ELSE IF log.total_driving_hours + log.total_on_duty_hours > OnDutyLimit * 100 THEN FALSE
    ELSE IF log.total_off_duty_hours + log.total_sleeper_berth_hours < RestRequirement * 100
         THEN FALSE
    ELSE TRUE

\* DailyLog.objects.get_or_create(driver=d, date=date): the row of the key
\* (unique_together), appended with the defaults when there is none
get_or_create_daily_log(logs, d, date) ==
    LET S == {pk \in 1..Len(logs) : logs[pk].driver = d /\ logs[pk].date = date}
    IN  IF S # {}
        THEN [created |-> FALSE, pk |-> CHOOSE pk \in S : TRUE, logs |-> logs]
        ELSE [created |-> TRUE, pk |-> Len(logs) + 1,
              logs |-> Append(logs, DailyLog(d, date, 0, 0, 0, 0))]

\* generate_daily_log for a valid target date (today when the request names
\* none): the totals of the day's DailyLog are recomputed and saved
generate_daily_log(d, target_date) ==
    LET r   == get_or_create_daily_log(dailyLogs, d, target_date)
        row == calculate_totals(r.logs[r.pk], entries)
    IN  /\ Len(r.logs) <= MaxDailyLogs
        /\ dailyLogs' = [r.logs EXCEPT ![r.pk] = row]
        /\ ev' = [Event("generate_daily_log", d, r.pk, 200, now,
                        IF r.created THEN {r.pk} ELSE {}, {})
                    EXCEPT !.result = {is_hos_compliant(row)}]
        /\ UNCHANGED <<now, advances, profiles, trips, entries, dutyLogs, violations>>

\* GET /logs/status/ : current_hos_status answers is_compliant_today from
\* the stored DailyLog of the day, created with zero totals when there is
\* none; the totals are not recomputed
current_hos_status(d) ==
    LET r == get_or_create_daily_log(dailyLogs, d, DateOf(now))
    IN  /\ Len(r.logs) <= MaxDailyLogs
        /\ dailyLogs' = r.logs
        /\ ev' = [Event("current_hos_status", d, r.pk, 200, now,
                        IF r.created THEN {r.pk} ELSE {}, {})
                    EXCEPT !.result = {is_hos_compliant(r.logs[r.pk])}]
        /\ UNCHANGED <<now, advances, profiles, trips, entries, dutyLogs, violations>>

\* POST /logs/daily/<pk>/certify/
certify_daily_log(d, pk) ==
    /\ pk \in 1..Len(dailyLogs)
    /\ IF ~Owned(dailyLogs, pk, d)
       THEN /\ ev' = Event("certify_daily_log", d, pk, 404, now, {}, {})
            /\ UNCHANGED dailyLogs
       ELSE IF dailyLogs[pk].is_certified
       THEN /\ ev' = Event("certify_daily_log", d, pk, 400, now, {}, {})
            /\ UNCHANGED dailyLogs
       ELSE /\ dailyLogs' = [dailyLogs EXCEPT ![pk].is_certified = TRUE,
                                              ![pk].certified_at = now,
                                              ![pk].certified_by = d]
            /\ ev' = Event("certify_daily_log", d, pk, 200, now, {}, {})
    /\ UNCHANGED <<now, advances, profiles, trips, entries, dutyLogs, violations>>

\* ModelSerializer.update: every validated attribute is set on the instance
update_fields(row, data) ==
    [f \in DOMAIN row |-> IF f \in DOMAIN data THEN data[f] ELSE row[f]]

\* PATCH /logs/daily/<pk>/ : DailyLogDetailView with DailyLogSerializer, whose
\* read-only fields are id, created_at and updated_at: the totals and the
\* certification fields are writable
update_daily_log(d, pk, data) ==
    /\ pk \in 1..Len(dailyLogs)
    /\ IF ~Owned(dailyLogs, pk, d)
       THEN /\ ev' = Event("update_daily_log", d, pk, 404, now, {}, {})
            /\ UNCHANGED dailyLogs
       ELSE /\ dailyLogs' = [dailyLogs EXCEPT ![pk] = update_fields(@, data)]
            /\ ev' = Event("update_daily_log", d, pk, 200, now, {}, {})
    /\ UNCHANGED <<now, advances, profiles, trips, entries, dutyLogs, violations>>

\* POST /logs/daily/ : DailyLogListCreateView.perform_create.  date is not a
\* serializer field and takes the model default (today); a second log of the
\* day violates unique_together (IntegrityError)
create_daily_log(d, data) ==
    LET S == {pk \in 1..Len(dailyLogs) :
                dailyLogs[pk].driver = d /\ dailyLogs[pk].date = DateOf(now)}
    IN  /\ Len(dailyLogs) < MaxDailyLogs
        /\ IF S # {}
           THEN /\ ev' = Event("create_daily_log", d, 0, 500, now, {}, {})
                /\ UNCHANGED dailyLogs
           ELSE /\ dailyLogs' = Append(dailyLogs,
                      update_fields(DailyLog(d, DateOf(now), 0, 0, 0, 0), data))
                /\ ev' = Event("create_daily_log", d, Len(dailyLogs) + 1, 201, now,
                               {Len(dailyLogs) + 1}, {})
        /\ UNCHANGED <<now, advances, profiles, trips, entries, dutyLogs, violations>>

\* the rows S of the DailyLog table in Meta.ordering ['-date']
RECURSIVE ByDateDescending(_, _)
ByDateDescending(logs, S) ==
    IF S = {} THEN <<>>
    ELSE LET m == CHOOSE x \in S : \A y \in S \ {x} :
                    \/ logs[x].date > logs[y].date
                    \/ logs[x].date = logs[y].date /\ x < y
         IN  <<m>> \o ByDateDescending(logs, S \ {m})

\* check_violations with every DailyLog of the period reported, compliant
\* or not
check_violations_every_log(d, days) ==
    LET today      == DateOf(now)
        daily_logs == {pk \in 1..Len(dailyLogs) :
                         /\ dailyLogs[pk].driver = d
                         /\ dailyLogs[pk].date \in (today - days)..today}
        failing    == ByDateDescending(dailyLogs, daily_logs)
        created    == [i \in 1..Len(failing) |->
                         Violation(d, failing[i], "driving_limit", "major", FALSE)]
    IN  /\ Len(violations) + Len(failing) <= MaxViolations
        /\ violations' = violations \o created
        /\ ev' = [Event("check_violations", d, 0, 200, now,
                        {Len(violations) + i : i \in 1..Len(failing)}, {})
                    EXCEPT !.query = daily_logs, !.result = {Len(failing)}]
        /\ UNCHANGED <<now, advances, profiles, trips, entries, dutyLogs, dailyLogs>>

\* check_violations(request, days): one Violation for every DailyLog of the
\* driver dated in [today - days, today] whose stored totals are not compliant
check_violations(d, days) ==
    LET today      == DateOf(now)
        daily_logs == {pk \in 1..Len(dailyLogs) :
                         /\ dailyLogs[pk].driver = d
                         /\ dailyLogs[pk].date \in (today - days)..today}
        failing    == ByDateDescending(dailyLogs,
                         {pk \in daily_logs : ~is_hos_compliant(dailyLogs[pk])})
        created    == [i \in 1..Len(failing) |->
                         Violation(d, failing[i], "driving_limit", "major", FALSE)]
    IN  /\ Len(violations) + Len(failing) <= MaxViolations
        /\ violations' = violations \o created
        /\ ev' = [Event("check_violations", d, 0, 200, now,
                        {Len(violations) + i : i \in 1..Len(failing)}, {})
                    EXCEPT !.query = daily_logs, !.result = {Len(failing)}]
        /\ UNCHANGED <<now, advances, profiles, trips, entries, dutyLogs, dailyLogs>>

\* resolve_violation without the is_resolved check of lines 221-225
resolve_violation_unchecked(d, pk, notes) ==
    /\ pk \in 1..Len(violations)
    /\ IF ~Owned(violations, pk, d)
       THEN /\ ev' = Event("resolve_violation", d, pk, 404, now, {}, {})
            /\ UNCHANGED violations
       ELSE /\ violations' = [violations EXCEPT ![pk].is_resolved = TRUE,
                                                ![pk].resolved_at = now,
                                                ![pk].resolution_notes = notes]
            /\ ev' = Event("resolve_violation", d, pk, 200, now, {}, {})
    /\ UNCHANGED <<now, advances, profiles, trips, entries, dutyLogs, dailyLogs>>

\* resolve_violation(request, pk) with the notes of the request
resolve_violation(d, pk, notes) ==
    /\ pk \in 1..Len(violations)
    /\ IF ~Owned(violations, pk, d)
       THEN /\ ev' = Event("resolve_violation", d, pk, 404, now, {}, {})
            /\ UNCHANGED violations
       ELSE IF violations[pk].is_resolved
       THEN /\ ev' = Event("resolve_violation", d, pk, 400, now, {}, {})
            /\ UNCHANGED violations
       ELSE /\ violations' = [violations EXCEPT ![pk].is_resolved = TRUE,
                                                ![pk].resolved_at = now,
                                                ![pk].resolution_notes = notes]
            /\ ev' = Event("resolve_violation", d, pk, 200, now, {}, {})
    /\ UNCHANGED <<now, advances, profiles, trips, entries, dutyLogs, dailyLogs>>

----------------------------------------------------------------------------
(* Seed data: logs/management/commands/seed_logs.py *)

\* the day the command generates: duty status and hours of each entry
status_sequence ==
    << [status |-> "off_duty", duration |-> 8],
       [status |-> "driving", duration |-> 4],
       [status |-> "on_duty_not_driving", duration |-> 2],
       [status |-> "driving", duration |-> 3],
       [status |-> "on_duty_not_driving", duration |-> 1],
       [status |-> "off_duty", duration |-> 6] >>

\* the loop of create_daily_logs over the entries: each one starts where the
\* previous one ended, all carry the date log_date, the odometer advances 50
\* miles for every hour of driving
RECURSIVE seed_entries(_, _, _, _, _, _)
seed_entries(es, d, log_date, seq, current_time, current_odometer) ==
    IF seq = <<>> THEN es
    ELSE LET item     == Head(seq)
             end_time == current_time + item.duration * SecondsPerHour
             odometer == IF item.status = "driving"
                         THEN current_odometer + item.duration * 50
                         ELSE current_odometer
             e == [LogEntry(d, log_date, TimeOf(current_time), TimeOf(end_time),
                            item.status, "seed", "")
                     EXCEPT !.odometer_start = current_odometer]
         IN  seed_entries(Append(es, e), d, log_date, Tail(seq), end_time, odometer)

\* the totals the loop records on the DailyLog: driving hours count as
\* driving and as on duty
RECURSIVE seed_totals(_, _)
seed_totals(log, seq) ==
    IF seq = <<>> THEN log
    ELSE LET item == Head(seq)
             h    == item.duration * 100
             log1 == IF item.status = "driving"
                     THEN [log EXCEPT !.total_driving_hours = @ + h,
                                      !.total_on_duty_hours = @ + h]
                     ELSE IF item.status = "on_duty_not_driving"
                     THEN [log EXCEPT !.total_on_duty_hours = @ + h]
                     ELSE IF item.status = "sleeper_berth"
                     THEN [log EXCEPT !.total_sleeper_berth_hours = @ + h]
                     ELSE [log EXCEPT !.total_off_duty_hours = @ + h]
         IN  seed_totals(log1, Tail(seq))

\* Command.create_daily_logs for one day, the first entry starting at 6 AM.
\* certified and draw are the random choices: draw holds the one violation
\* the command records, if any.
create_daily_logs(acc, d, log_date, certified, draw) ==
    LET log0 == [DailyLog(d, log_date, 0, 0, 0, 0) EXCEPT !.is_certified = certified]
        logs == Append(acc.dailyLogs, seed_totals(log0, status_sequence))
    IN  [entries    |-> seed_entries(acc.entries, d, log_date, status_sequence,
                                     6 * SecondsPerHour, 1000),
         dailyLogs  |-> logs,
         violations |-> acc.violations \o
                          [i \in 1..Len(draw) |->
                             Violation(d, Len(logs), draw[i].violation_type,
                                       draw[i].severity, draw[i].is_resolved)]]

\* the loop of Command.handle: for day in range(days, 0, -1)
RECURSIVE seed_days(_, _, _, _, _, _)
seed_days(acc, d, today, day, certified, draw) ==
    IF day = 0 THEN acc
    ELSE seed_days(create_daily_logs(acc, d, today - day, certified, draw),
                   d, today, day - 1, certified, draw)

\* manage.py seed_logs --days <days> for the driver d, run when the driver
\* has no log rows yet, so that the three deletes of lines 39-41 remove
\* nothing
seed_logs(d, days, certified, draw) ==
    LET acc == seed_days([entries |-> entries, dailyLogs |-> dailyLogs,
                          violations |-> violations],
                         d, DateOf(now), days, certified, draw)
    IN  /\ \A i \in 1..Len(entries) : entries[i].driver # d
        /\ \A i \in 1..Len(dailyLogs) : dailyLogs[i].driver # d
        /\ \A i \in 1..Len(violations) : violations[i].driver # d
        /\ Len(acc.dailyLogs) <= MaxDailyLogs
        /\ Len(acc.violations) <= MaxViolations
        /\ entries' = acc.entries
        /\ dailyLogs' = acc.dailyLogs
        /\ violations' = acc.violations
        /\ ev' = Event("seed_logs", d, 0, 0, now,
                       {i \in 1..Len(acc.entries) : i > Len(entries)}, {})
        /\ UNCHANGED <<now, advances, profiles, trips, dutyLogs>>

----------------------------------------------------------------------------
(* The system *)

StartTime == 86370
Jumps == {60, SecondsPerHour}

\* the profiles the drivers registered with; DriverProfile has no timezone field
ProfileSetups ==
    { [d \in Drivers |-> IF d = "d1" THEN Profile(TRUE, 0, "70_8", NoAttribute)
                         ELSE NoProfile],
      [d \in Drivers |-> IF d = "d1" THEN Profile(TRUE, 0, "60_7", NoAttribute)
                         ELSE Profile(FALSE, 0, "70_8", NoAttribute)] }

Init ==
    /\ now = StartTime
    /\ advances = 0
    /\ profiles \in ProfileSetups
    /\ trips = <<>>
    /\ entries = <<>>
    /\ dutyLogs = <<>>
    /\ dailyLogs = <<>>
    /\ violations = <<>>
    /\ ev = NoEvent

\* the clock moves by one of the given steps
Clock(steps) == \E dt \in steps : Tick(dt)

\* the trip endpoints: the owners create trips with one of the given cycles,
\* the callers call the endpoints of a trip, an update sets one of the statuses
TripRequests(owners, callers, cycles, statuses) ==
    \/ \E d \in owners, status \in {"planning", "active"}, cycle \in cycles :
          create_trip(d, status, cycle, Null)
    \/ \E d \in callers, pk \in 1..MaxTrips, status \in statuses :
          update_trip(d, pk, status)
    \/ \E d \in callers, pk \in 1..MaxTrips : start_trip(d, pk)
    \/ \E d \in callers, pk \in 1..MaxTrips : complete_trip(d, pk)

\* the entry that starts at start and lasts length seconds, open when length
\* is 0
EndOf(start, length) ==
    IF length = 0 THEN Null ELSE (start + length) % SecondsPerDay

\* the log entry endpoint, for entries of the given drivers and statuses that
\* start offset seconds from now and have one of the given lengths
LogRequests(drivers, statuses, offsets, lengths) ==
    \E d \in drivers, status \in statuses, offset \in offsets, length \in lengths :
        create_log_entry(d, status, TimeOf(now + offset),
                         EndOf(TimeOf(now + offset), length))

\* the scheduled commands and the endpoint that opens the day's trip
Scheduler ==
    \/ \E d \in Drivers : get_or_create_current_trip(d)
    \/ auto_switch_duty_status
    \/ close_trips_at_midnight

\* the trip, log entry and scheduler operations of the engine
Next ==
    \/ Clock(Jumps)
    \/ TripRequests({"d1"}, Drivers, CYCLE_CHOICES, {"planning", "cancelled"})
    \/ LogRequests(Drivers, {"driving", "on_duty_not_driving"}, {0}, {0, SecondsPerHour})
    \/ Scheduler

Spec == Init /\ [][Next]_vars

\* the trip lifecycle manager with manual log entries
NextTrip ==
    \/ Clock({SecondsPerHour})
    \/ TripRequests({"d1"}, {"d1"}, {"70_8"}, {"planning", "cancelled"})
    \/ LogRequests({"d1"}, {"driving"}, {0, 1}, {0})

SpecTrip == Init /\ [][NextTrip]_vars

\* the start times a caller gives relative to the clock: a minute ago, now,
\* the instant the next handler stamps its row with, an hour ahead
StartOffsets == {0 - 60, 0, 2, SecondsPerHour}

\* the time between two runs: a minute, an hour, an hour and a minute
TickJumps == Jumps \cup {SecondsPerHour + 60}

\* the auto-transition scheduler with manual log entries
NextSched ==
    \/ Clock(TickJumps)
    \/ LogRequests({"d1"}, {"on_duty_not_driving", "off_duty"}, StartOffsets, {0})
    \/ Scheduler

SpecSched == Init /\ [][NextSched]_vars

\* the duty status log serializer, which no URL routes to
NextDuty ==
    \/ Clock({SecondsPerHour})
    \/ \E d \in Drivers, status \in {"driving", "off_duty"}, end \in {Null, now + 1},
          odometer \in {Null, 100}, condition \in {"", "satisfactory"} :
          create_duty_status_log(d, status, now, end, odometer, condition)

SpecDuty == Init /\ [][NextDuty]_vars

\* the daily compliance predicate over stored totals (hundredths of an hour)
Totals == {0, 299, 300, 301, 499, 500, 999, 1000, 1099, 1100, 1101, 1400, 1401}

InitHOS ==
    /\ now = StartTime
    /\ advances = 0
    /\ profiles \in ProfileSetups
    /\ trips = <<>>
    /\ entries = <<>>
    /\ dutyLogs = <<>>
    /\ dailyLogs \in {<<DailyLog("d1", DateOf(StartTime), driving, onDuty, offDuty, sleeper)>> :
                         driving \in Totals, onDuty \in Totals,
                         offDuty \in Totals, sleeper \in Totals}
    /\ violations = <<>>
    /\ ev = NoEvent

NextHOS == \E d \in Drivers : current_hos_status(d)

SpecHOS == InitHOS /\ [][NextHOS]_vars

\* the log entry detail endpoint and the endpoints that read or recompute
\* the daily summary of today or yesterday, called by the callers
SummaryRequests(callers) ==
    \/ \E d \in callers, pk \in 1..Len(entries), length \in {2 * SecondsPerHour} :
          update_log_entry(d, pk, EndOf(entries[pk].start_time, length))
    \/ \E d \in callers, back \in {0, 1} : generate_daily_log(d, DateOf(now) - back)
    \/ \E d \in callers : current_hos_status(d)

\* the daily summaries computed from manual log entries
NextSummary ==
    \/ Clock({60})
    \/ LogRequests(Drivers, {"driving", "off_duty"}, {0}, {0, SecondsPerHour})
    \/ SummaryRequests({"d1"})

SpecSummary == Init /\ [][NextSummary]_vars

\* the endpoints that change a stored log entry, called by the callers: the
\* detail endpoint with an end two hours after the start, the duty time
\* endpoint with a start a minute before the clock
EntryUpdates(callers, statuses) ==
    \/ \E d \in callers, pk \in 1..Len(entries) :
          update_log_entry(d, pk, EndOf(entries[pk].start_time, 2 * SecondsPerHour))
    \/ \E d \in callers, status \in statuses :
          update_duty_status_time(d, status, TimeOf(now - 60))

\* the duty intervals under manual entries, their updates and the auto-switch
NextEntries ==
    \/ Clock(Jumps)
    \/ LogRequests({"d1"}, {"driving", "on_duty_not_driving"}, {0}, {0, SecondsPerHour})
    \/ EntryUpdates({"d1"}, {"driving", "on_duty_not_driving"})
    \/ auto_switch_duty_status

SpecEntries == Init /\ [][NextEntries]_vars

\* the violations the seed command may record
SeedDraws ==
    { <<>>,
      <<[violation_type |-> "rest_requirement", severity |-> "severe",
         is_resolved |-> TRUE]>> }

\* the fields a request sets on a daily log
DailyLogData ==
    { [is_certified |-> FALSE],
      [total_off_duty_hours |-> 10 * 100] }

\* the seed command run for one of the owners with one of the random draws,
\* and the summaries of today and yesterday recomputed
SeedRequests(owners, certifieds, draws) ==
    \/ \E d \in owners, certified \in certifieds, draw \in draws :
          seed_logs(d, 1, certified, draw)
    \/ \E d \in owners, back \in {0, 1} : generate_daily_log(d, DateOf(now) - back)

\* the daily log endpoints; the callers call those that take a primary key
DailyLogRequests(owners, callers) ==
    \/ \E d \in callers, pk \in 1..MaxDailyLogs : certify_daily_log(d, pk)
    \/ \E d \in callers, pk \in 1..MaxDailyLogs, data \in DailyLogData :
          update_daily_log(d, pk, data)
    \/ \E d \in owners, data \in DailyLogData : create_daily_log(d, data)

\* the notes the requests resolve a violation with
ResolutionNotes == "logged late"

\* the violation endpoints
ViolationRequests(owners, callers) ==
    \/ \E d \in owners, days \in {0, 7} : check_violations(d, days)
    \/ \E d \in callers, pk \in 1..MaxViolations :
          resolve_violation(d, pk, ResolutionNotes)

\* the daily logs of a seeded driver and their certification
NextCertify ==
    \/ Clock({60})
    \/ SeedRequests({"d1"}, BOOLEAN, {<<>>})
    \/ DailyLogRequests({"d1"}, Drivers)

SpecCertify == Init /\ [][NextCertify]_vars

\* the daily logs of a seeded driver and their violations
NextViolations ==
    \/ Clock({60})
    \/ SeedRequests({"d1"}, {FALSE}, SeedDraws)
    \/ ViolationRequests({"d1"}, Drivers)

SpecViolations == Init /\ [][NextViolations]_vars

\* the cycle-limit check over stored trips: distances in hundredths of a
\* mile (none, 0, 6, 9, 30, 50 and 120 miles), available hours in hundredths
Distances == {Null, 0, 600, 900, 3000, 5000, 12000}
AvailableHours == {0, 10, 15, 50, 83, 84, 200, 7000}

InitCycle ==
    /\ now = StartTime
    /\ advances = 0
    /\ profiles \in ProfileSetups
    /\ trips \in {<<[Trip("d1", "planning", cycle, Null, FALSE, DateOf(StartTime))
                       EXCEPT !.total_distance = distance,
                              !.available_hours = available]>> :
                     cycle \in CYCLE_CHOICES, distance \in Distances,
                     available \in AvailableHours}
    /\ entries = <<>>
    /\ dutyLogs = <<>>
    /\ dailyLogs = <<>>
    /\ violations = <<>>
    /\ ev = NoEvent

NextCycle == \E d \in Drivers, pk \in 1..MaxTrips : trip_compliance_check(d, pk)

SpecCycle == InitCycle /\ [][NextCycle]_vars

----------------------------------------------------------------------------
(* Properties of the trip lifecycle *)

\* the trip a step of the endpoint op answered for, by its owner
Answered(op, pk) ==
    /\ ev'.op = op
    /\ ev'.pk = pk
    /\ pk \in 1..Len(trips)
    /\ Owned(trips, pk, ev'.driver)

\* the entries a step appended
Appended == {i \in 1..Len(entries') : i > Len(entries)}

\* C5: start_trip on a trip whose status is not planning (active, completed
\* or cancelled) fails with an error and changes nothing: the trip's status
\* and start_time are unchanged and no duty interval is created.
C5_StartRejectedChangesNothing ==
    [][\A pk \in 1..MaxTrips :
         (Answered("start_trip", pk) /\ trips[pk].status # "planning")
         => /\ ev'.code = 400
            /\ trips'[pk].status = trips[pk].status
            /\ trips'[pk].start_time = trips[pk].start_time
            /\ trips' = trips
            /\ entries' = entries]_vars

\* a start was refused for a trip that is active, completed or cancelled
C5_Witness ==
    /\ ev.op = "start_trip"
    /\ ev.code = 400
    /\ ev.pk \in 1..Len(trips)
    /\ trips[ev.pk].status \in {"active", "completed", "cancelled"}

\* C6: start_trip on a planning trip sets status=active and start_time=now
\* and creates exactly one new open driving interval for the trip's driver
\* dated today; the trip's available_hours and used_hours are unchanged.
C6_StartOpensOneDrivingInterval ==
    [][\A pk \in 1..MaxTrips :
         (Answered("start_trip", pk) /\ trips[pk].status = "planning")
         => /\ trips'[pk].status = "active"
            /\ trips'[pk].start_time = now
            /\ trips'[pk].available_hours = trips[pk].available_hours
            /\ trips'[pk].used_hours = trips[pk].used_hours
            /\ Cardinality(Appended) = 1
            /\ \A i \in Appended :
                 /\ entries'[i].driver = trips[pk].driver
                 /\ entries'[i].duty_status = "driving"
                 /\ entries'[i].end_time = Null
                 /\ entries'[i].date \in {DateOf(now), DateOf(now')}]_vars

\* C7: complete_trip on a trip whose status is not active fails with an error
\* and leaves the trip's status, end_time, used_hours and available_hours
\* unchanged and creates no duty interval; on an active trip it sets
\* status=completed and end_time=now and opens an off_duty interval for today.
C7_CompleteRequiresActive ==
    [][\A pk \in 1..MaxTrips :
         Answered("complete_trip", pk)
         => IF trips[pk].status # "active"
            THEN /\ ev'.code = 400
                 /\ trips'[pk] = trips[pk]
                 /\ Appended = {}
            ELSE /\ trips'[pk].status = "completed"
                 /\ trips'[pk].end_time = now
                 /\ \E i \in Appended :
                      /\ entries'[i].driver = trips[pk].driver
                      /\ entries'[i].duty_status = "off_duty"
                      /\ entries'[i].end_time = Null
                      /\ entries'[i].date \in {DateOf(now), DateOf(now')}]_vars

\* C8: completing an active trip whose start_time is T0 at time T0+d succeeds
\* and reduces available_hours by exactly d hours and increases used_hours by
\* exactly d hours, for every stored trip with a non-null start_time.
C8_CompleteMovesHours ==
    [][\A pk \in 1..MaxTrips :
         (/\ Answered("complete_trip", pk)
          /\ trips[pk].status = "active"
          /\ trips[pk].start_time # Null)
         => LET d == HoursHundredths(now - trips[pk].start_time)
            IN  /\ ev'.code = 200
                /\ trips'[pk].used_hours = trips[pk].used_hours + d
                /\ trips'[pk].available_hours = trips[pk].available_hours - d]_vars

\* C9: trip status transitions are one-directional: under create, update,
\* start, complete and rollover a trip that has reached active never returns
\* to planning, and a trip that has reached completed never returns to active
\* or planning.
C9_StatusOneDirectional ==
    [][\A pk \in 1..Len(trips) :
         /\ trips[pk].status = "active" => trips'[pk].status # "planning"
         /\ trips[pk].status = "completed"
            => trips'[pk].status \notin {"active", "planning"}]_vars

----------------------------------------------------------------------------
(* Properties of the duty intervals *)

\* the open intervals of a driver among the rows es
OpenIntervals(es, d) ==
    {i \in 1..Len(es) : es[i].driver = d /\ es[i].end_time = Null}

\* C3: in every reachable state, after any sequence of manual log entry
\* creation, trip start, trip complete, get_or_create_current, auto-revert
\* ticks and rollover ticks, each driver has at most one open interval.
C3_AtMostOneOpenInterval ==
    \A d \in Drivers : Cardinality(OpenIntervals(entries, d)) <= 1

\* C4: opening a driving interval for a driver who already has an open
\* driving interval sets the prior interval's end_time to the new interval's
\* start_time, so that afterwards the driver never has two open driving
\* intervals; intervals of other drivers and non-driving intervals are left
\* unchanged by this implicit close.
C4_OpeningDrivingClosesPrior ==
    [][\A n \in Appended :
         (entries'[n].duty_status = "driving" /\ entries'[n].end_time = Null)
         => \A i \in 1..Len(entries) :
              IF /\ entries[i].driver = entries'[n].driver
                 /\ entries[i].duty_status = "driving"
                 /\ entries[i].end_time = Null
              THEN entries'[i].end_time = entries'[n].start_time
              ELSE entries'[i] = entries[i]]_vars

----------------------------------------------------------------------------
(* Properties of the scheduled commands *)

\* the instant t lies in the five minutes that follow the close time of the
\* driver d, whose profile has auto-close enabled (local time is UTC)
InCloseWindow(d, t) ==
    /\ profiles[d].exists
    /\ profiles[d].auto_close_trip_at_midnight
    /\ TimeOf(t) - profiles[d].auto_close_trip_time \in 0..AutoCloseWindow

\* the automatic trips of a driver that have the given status
AutomaticTrips(d, status) ==
    {pk \in 1..Len(trips) :
        /\ trips[pk].driver = d
        /\ trips[pk].is_automatic
        /\ trips[pk].status = status}

\* C1: midnight rollover closes a driver's trip exactly once per day: after a
\* tick inside the 5-minute window found an active automatic trip of the
\* driver, and after a second tick a minute later, the driver has exactly one
\* completed trip from the rollover and exactly one new active automatic
\* trip; the second tick closes nothing and creates no second successor.
C1_RolloverOncePerDay ==
    ev.op = "close_trips_at_midnight" =>
        \A d \in Drivers :
            (/\ InCloseWindow(d, ev.t)
             /\ \E pk \in ev.query : trips[pk].driver = d)
            => /\ Cardinality({pk \in AutomaticTrips(d, "completed") :
                                  DateOf(trips[pk].end_time) = DateOf(ev.t)}) = 1
               /\ Cardinality(AutomaticTrips(d, "active")) = 1

\* C2: auto-revert is idempotent across ticks: for a driver with one eligible
\* open on_duty_not_driving interval, two auto-switch ticks in the same
\* minute produce exactly one auto-revert: one interval closed and one new
\* driving interval created by the first tick, nothing by the second.
C2_AutoRevertOnce ==
    [][ev'.op = "auto_switch_duty_status" =>
         /\ \A d \in Drivers :
              LET closed == {pk \in ev'.closed : entries'[pk].driver = d}
                  made   == {pk \in ev'.made :
                                /\ entries'[pk].driver = d
                                /\ entries'[pk].duty_status = "driving"
                                /\ entries'[pk].end_time = Null}
              IN  Cardinality(closed) = 1
                  => /\ Cardinality(made) = 1
                     /\ \A pk \in closed : entries'[pk].end_time # Null
         /\ ev.op = "auto_switch_duty_status"
            => ev'.closed \cap (ev.closed \cup ev.made) = {}]_vars

----------------------------------------------------------------------------
(* Properties of the daily compliance predicate *)

\* C10: is_hos_compliant answers true exactly when total_driving_hours <= 11,
\* total_driving_hours + total_on_duty_hours <= 14 and total_off_duty_hours +
\* total_sleeper_berth_hours >= 10 all hold: true at driving = 11.00, false
\* at driving = 11.01, and false whenever off duty + sleeper < 10 even if the
\* driving and on-duty totals are within their limits.
C10_CompliantIffThreeLimits ==
    ev.op = "current_hos_status" =>
        LET summary == dailyLogs[ev.pk]
        IN  /\ ev.result = {(/\ summary.total_driving_hours <= 1100
                             /\ summary.total_driving_hours
                                  + summary.total_on_duty_hours <= 1400
                             /\ summary.total_off_duty_hours
                                  + summary.total_sleeper_berth_hours >= 1000)}
            /\ summary.total_driving_hours = 1101 => ev.result = {FALSE}
            /\ summary.total_off_duty_hours + summary.total_sleeper_berth_hours < 1000
               => ev.result = {FALSE}

\* a day with exactly 11.00 driving hours, 14.00 hours on duty in all and
\* 10.00 hours of rest was answered compliant
C10_Witness ==
    /\ ev.op = "current_hos_status"
    /\ dailyLogs[ev.pk].total_driving_hours = 1100
    /\ dailyLogs[ev.pk].total_on_duty_hours = 300
    /\ dailyLogs[ev.pk].total_off_duty_hours
         + dailyLogs[ev.pk].total_sleeper_berth_hours = 1000
    /\ ev.result = {TRUE}

----------------------------------------------------------------------------
(* Properties of the daily summaries *)

\* the duration of an interval in hundredths of an hour: end - start, or
\* end + 24h - start when the end is before the start; 0 while it is open
Duration(e) ==
    IF e.end_time = Null THEN 0
    ELSE IF e.end_time >= e.start_time
         THEN HoursHundredths(e.end_time - e.start_time)
         ELSE HoursHundredths(e.end_time + SecondsPerDay - e.start_time)

RECURSIVE SumDurations(_, _)
SumDurations(es, S) ==
    IF S = {} THEN 0
    ELSE LET i == CHOOSE x \in S : TRUE
         IN  Duration(es[i]) + SumDurations(es, S \ {i})

\* the intervals of a driver on a date
IntervalsOf(es, d, date) ==
    {i \in 1..Len(es) : es[i].driver = d /\ es[i].date = date}

\* the summed duration of the intervals of a driver on a date with a status
StatusTotal(es, d, date, status) ==
    SumDurations(es, {i \in IntervalsOf(es, d, date) : es[i].duty_status = status})

\* the total of a summary that counts the status
Bucket(log, status) ==
    IF status = "driving" THEN log.total_driving_hours
    ELSE IF status = "on_duty_not_driving" THEN log.total_on_duty_hours
    ELSE IF status = "off_duty" THEN log.total_off_duty_hours
    ELSE log.total_sleeper_berth_hours

\* the four totals of a summary equal the per-status sums of the intervals
\* es of its driver and date
TotalsMatch(log, es) ==
    \A status \in DUTY_STATUS :
        Bucket(log, status) = StatusTotal(es, log.driver, log.date, status)

C13_SeedDayTotals ==
    [][(/\ ev.op = "seed_logs"
        /\ ev'.op = "generate_daily_log"
        /\ ev'.driver = ev.driver
        /\ ev'.made = {})
       => LET seeded == dailyLogs[ev'.pk]
              log    == dailyLogs'[ev'.pk]
          IN  /\ log.total_driving_hours = 7 * 100
              /\ log.total_off_duty_hours = 14 * 100
              /\ log.total_on_duty_hours =
                    StatusTotal(entries, log.driver, log.date, "driving")
                    + StatusTotal(entries, log.driver, log.date, "on_duty_not_driving")
              /\ log.total_on_duty_hours = seeded.total_on_duty_hours
              /\ ev'.result = {TRUE}]_vars

----------------------------------------------------------------------------
(* Properties of the daily log records *)

\* the violations a step appended
NewViolations == {v \in 1..Len(violations') : v > Len(violations)}

\* C14: check_period creates exactly one Violation (type driving_limit,
\* severity major, linked to the summary) for each of the driver's summaries
\* in the range that fails is_compliant and none for compliant summaries; it
\* does no de-duplication, so a second run over the same range with k
\* non-compliant summaries leaves 2k violations; it never modifies an
\* interval or a summary.
C14_OneViolationPerFailingSummary ==
    [][ev'.op = "check_violations" =>
         /\ entries' = entries
         /\ dailyLogs' = dailyLogs
         /\ SubSeq(violations', 1, Len(violations)) = violations
         /\ \A pk \in ev'.query :
              /\ dailyLogs[pk].driver = ev'.driver
              /\ dailyLogs[pk].date <= DateOf(now)
         /\ \A pk \in 1..Len(dailyLogs) :
              (dailyLogs[pk].driver = ev'.driver /\ dailyLogs[pk].date = DateOf(now))
              => pk \in ev'.query
         /\ \A pk \in 1..Len(dailyLogs) :
              LET new == {v \in NewViolations : violations'[v].daily_log = pk}
              IN  IF pk \in ev'.query /\ ~is_hos_compliant(dailyLogs[pk])
                  THEN /\ Cardinality(new) = 1
                       /\ \A v \in new :
                            /\ violations'[v].driver = ev'.driver
                            /\ violations'[v].violation_type = "driving_limit"
                            /\ violations'[v].severity = "major"
                            /\ ~violations'[v].is_resolved
                  ELSE new = {}
         /\ (/\ ev.op = "check_violations"
             /\ ev.driver = ev'.driver
             /\ ev.query = ev'.query)
            => Len(violations') = Len(violations) + Cardinality(ev.made)]_vars

\* a second check over a period with a compliant and a non-compliant summary
\* left two violations on the non-compliant one and none on the other
C14_Witness ==
    /\ ev.op = "check_violations"
    /\ Cardinality(ev.made) = 1
    /\ \E bad \in ev.query, good \in ev.query :
         /\ ~is_hos_compliant(dailyLogs[bad])
         /\ is_hos_compliant(dailyLogs[good])
         /\ Cardinality({v \in 1..Len(violations) :
                            /\ violations[v].daily_log = bad
                            /\ violations[v].violation_type = "driving_limit"
                            /\ violations[v].severity = "major"}) = 2
         /\ \A v \in 1..Len(violations) : violations[v].daily_log # good

\* C15: certification of a DailySummary is one-way: once is_certified is true
\* it is never false again under certify, generate/recompute or summary
\* update, and certifying an already certified summary fails with an error
\* leaving certified_at and certified_by unchanged.
C15_CertificationOneWay ==
    [][\A pk \in 1..Len(dailyLogs) :
         dailyLogs[pk].is_certified
         => /\ dailyLogs'[pk].is_certified
            /\ (/\ ev'.op = "certify_daily_log"
                /\ ev'.pk = pk
                /\ ev'.driver = dailyLogs[pk].driver)
               => /\ ev'.code = 400
                  /\ dailyLogs'[pk].certified_at = dailyLogs[pk].certified_at
                  /\ dailyLogs'[pk].certified_by = dailyLogs[pk].certified_by]_vars

\* C16: whenever a compliance decision is taken on a DailySummary
\* (check_period, or the is_compliant flag of the current-status query), the
\* summary's four totals equal the per-status sums of the driver's current
\* intervals for that date: never stale, never set by hand.
C16_DecisionsOnCurrentTotals ==
    /\ ev.op = "current_hos_status" => TotalsMatch(dailyLogs[ev.pk], entries)
    /\ ev.op = "check_violations"
       => \A pk \in ev.query : TotalsMatch(dailyLogs[pk], entries)

\* C17: resolving a Violation is one-way: resolve on an unresolved violation
\* sets is_resolved = true with resolved_at and the given notes; resolve on an
\* already resolved violation fails with an error and leaves resolved_at and
\* resolution_notes unchanged; no operation sets is_resolved back to false.
C17_ResolveOneWay ==
    [][\A pk \in 1..Len(violations) :
         /\ violations[pk].is_resolved
            => /\ violations'[pk].is_resolved
               /\ violations'[pk].resolved_at = violations[pk].resolved_at
               /\ violations'[pk].resolution_notes = violations[pk].resolution_notes
         /\ (/\ ev'.op = "resolve_violation"
             /\ ev'.pk = pk
             /\ ev'.driver = violations[pk].driver)
            => IF violations[pk].is_resolved
               THEN /\ ev'.code = 400
                    /\ violations'[pk] = violations[pk]
               ELSE /\ ev'.code = 200
                    /\ violations'[pk].is_resolved
                    /\ violations'[pk].resolved_at = now
                    /\ violations'[pk].resolution_notes = ResolutionNotes]_vars

\* a violation resolved at an earlier instant was asked to be resolved again
\* and was refused
C17_Witness ==
    /\ ev.op = "resolve_violation"
    /\ ev.code = 400
    /\ ev.pk \in 1..Len(violations)
    /\ violations[ev.pk].is_resolved
    /\ violations[ev.pk].resolved_at # Null
    /\ violations[ev.pk].resolved_at < now
    /\ violations[ev.pk].resolution_notes = ResolutionNotes

----------------------------------------------------------------------------
(* Properties of driving intervals and of the cycle limit *)

\* C18: every path that opens an interval with status = driving and no
\* odometer_start fails with a validation error and stores no interval:
\* every stored driving interval has a non-null odometer_start.
C18_DrivingHasOdometer ==
    /\ \A i \in 1..Len(entries) :
         entries[i].duty_status = "driving" => entries[i].odometer_start # Null
    /\ \A i \in 1..Len(dutyLogs) :
         dutyLogs[i].status = "driving" => dutyLogs[i].odometer_start # Null

----------------------------------------------------------------------------
(* Properties of the rollover *)

\* C20: when a rollover fires for a trip, the resulting state has that trip
\* with status = completed, end_time = now, available_hours equal to its cycle
\* maximum (70 for 70_8, 60 for 60_7) and used_hours = 0; exactly one new trip
\* of the same driver that is active, automatic and dated today; and an
\* initial off_duty interval opened for the new day.
C20_RolloverResult ==
    ev.op = "close_trips_at_midnight" =>
        \A pk \in ev.query :
            InCloseWindow(trips[pk].driver, ev.t)
            => /\ trips[pk].status = "completed"
               /\ trips[pk].end_time \in ev.t..now
               /\ trips[pk].available_hours = CycleHours(trips[pk].current_cycle)
               /\ trips[pk].used_hours = 0
               /\ Cardinality({q \in AutomaticTrips(trips[pk].driver, "active") :
                                  q > pk /\ trips[q].trip_date = DateOf(ev.t)}) = 1
               /\ \E i \in ev.made :
                    /\ entries[i].driver = trips[pk].driver
                    /\ entries[i].duty_status = "off_duty"
                    /\ entries[i].end_time = Null
                    /\ entries[i].date = DateOf(ev.t)


----------------------------------------------------------------------------
(* Properties of the automatic daily trip *)

\* C21: get_or_create_current(driver) is idempotent: called when no active
\* automatic trip dated today exists it creates exactly one such trip plus
\* one initial off_duty interval; called again on the same day with nothing
\* changed in between it returns that same trip and creates no further trip
\* and no further interval.
C21_GetOrCreateIdempotent ==
    [][\A d \in Drivers :
         (ev'.op = "get_or_create_current_trip" /\ ev'.driver = d)
         => LET found == get_current_trip(trips, d, DateOf(now)) IN
            IF found = 0
            THEN /\ Len(trips') = Len(trips) + 1
                 /\ ev'.pk = Len(trips')
                 /\ trips'[ev'.pk].driver = d
                 /\ trips'[ev'.pk].status = "active"
                 /\ trips'[ev'.pk].is_automatic
                 /\ trips'[ev'.pk].trip_date = DateOf(now)
                 /\ Cardinality(Appended) = 1
                 /\ \A i \in Appended :
                      /\ entries'[i].driver = d
                      /\ entries'[i].duty_status = "off_duty"
                      /\ entries'[i].end_time = Null
            ELSE /\ ev'.pk = found
                 /\ trips' = trips
                 /\ entries' = entries]_vars


\* C22: in every reachable state each driver has at most one trip that is
\* both active and automatic, after any interleaving of
\* get_or_create_current calls (calls made on a later day while an earlier
\* day's automatic trip is still active included) and rollover ticks.
C22_OneActiveAutomaticTrip ==
    \A d \in Drivers : Cardinality(AutomaticTrips(d, "active")) <= 1


\* C23: for every trip, available_hours + used_hours is at most the maximum
\* of the trip's cycle (70 for 70_8, 60 for 60_7): at creation (automatic
\* trips of a driver whose default cycle is 60_7 included), after complete
\* and after auto-close.
C23_HoursWithinCycle ==
    \A pk \in 1..Len(trips) :
        trips[pk].available_hours + trips[pk].used_hours
            <= CycleHours(trips[pk].current_cycle)


----------------------------------------------------------------------------
(* Properties of closed intervals and of the scheduler ticks *)

\* C24: a closed interval is immutable in status and timing: no later
\* operation (manual entry update, update of the current duty status start
\* time, auto-revert tick, rollover tick, trip start or complete) changes
\* its duty_status, start_time, end_time or computed duration.
C24_ClosedIntervalImmutable ==
    [][\A i \in 1..Len(entries) :
         entries[i].end_time # Null
         => /\ entries'[i].duty_status = entries[i].duty_status
            /\ entries'[i].start_time = entries[i].start_time
            /\ entries'[i].end_time = entries[i].end_time
            /\ entries'[i].total_hours = entries[i].total_hours]_vars


\* the seconds from the start of an interval (its date plus its start time)
\* to the instant t
Elapsed(e, t) == t - Combine(e.date, e.start_time)

\* C25: at an auto-switch tick every open on_duty_not_driving interval whose
\* time since its start lies between 1 hour and 1 hour 5 minutes is
\* processed, whatever its start time of day, starts in the hour before
\* midnight included: it is closed with end_time equal to its own
\* start_time, and a new open driving interval of the same driver that
\* starts now and carries its location and an auto-switch note is created.
C25_EligibleIntervalProcessed ==
    [][ev'.op = "auto_switch_duty_status" =>
         \A i \in 1..Len(entries) :
             (/\ entries[i].duty_status = "on_duty_not_driving"
              /\ entries[i].end_time = Null
              /\ Elapsed(entries[i], now) \in AutoSwitchMin..AutoSwitchMax)
             => /\ entries'[i].end_time = entries[i].start_time
                /\ entries'[i].total_hours = 0
                /\ \E n \in Appended :
                     /\ entries'[n].driver = entries[i].driver
                     /\ entries'[n].duty_status = "driving"
                     /\ entries'[n].end_time = Null
                     /\ entries'[n].date = DateOf(now)
                     /\ entries'[n].start_time = TimeOf(now)
                     /\ entries'[n].location = entries[i].location
                     /\ entries'[n].notes = "auto-switched"]_vars


\* C26: an auto-switch tick changes an interval only if it is open,
\* on_duty_not_driving and started between 1 hour and 1 hour 5 minutes
\* before now: an older open interval stays open, and intervals that start
\* in the future, closed intervals and intervals of another status are left
\* unchanged.
C26_OnlyEligibleIntervalChanged ==
    [][ev'.op = "auto_switch_duty_status" =>
         \A i \in 1..Len(entries) :
             entries'[i] # entries[i]
             => /\ entries[i].duty_status = "on_duty_not_driving"
                /\ entries[i].end_time = Null
                /\ Elapsed(entries[i], now) \in AutoSwitchMin..AutoSwitchMax]_vars


\* the time of day of the instant t is within five minutes before or after
\* the close time of driver d, around midnight included
NearCloseTime(d, t) ==
    LET diff == Abs(TimeOf(t) - profiles[d].auto_close_trip_time)
    IN  diff <= AutoCloseWindow \/ SecondsPerDay - diff <= AutoCloseWindow

\* the trip is one a rollover tick at the instant t has to fire for
RolloverDue(trip, t) ==
    /\ trip.status = "active"
    /\ trip.is_automatic
    /\ profiles[trip.driver].exists
    /\ profiles[trip.driver].auto_close_trip_at_midnight
    /\ NearCloseTime(trip.driver, t)

\* C27: a rollover tick fires for a trip exactly when the trip is active and
\* automatic, the driver's profile has auto-close enabled and the driver's
\* local time is within 5 minutes before or after auto_close_trip_time (for
\* 00:00 that includes 23:55-23:59 as well as 00:00-00:05); every other trip
\* is left unchanged and gets no successor.
C27_RolloverFiresExactlyWhenDue ==
    [][ev'.op = "close_trips_at_midnight" =>
         /\ \A pk \in 1..Len(trips) :
              IF RolloverDue(trips[pk], now)
              THEN pk \in ev'.closed /\ trips'[pk].status = "completed"
              ELSE pk \notin ev'.closed /\ trips'[pk] = trips[pk]
         /\ Len(trips') - Len(trips)
              = Cardinality({pk \in 1..Len(trips) : RolloverDue(trips[pk], now)})]_vars


\* the rows of the query of an auto-switch run that pass the test of the
\* loop at the instant t
InSwitchWindow(es, query, t) ==
    {pk \in query : Abs(Elapsed(es[pk], t)) \in AutoSwitchMin..AutoSwitchMax}

C29_SchedulerStepAtomic ==
    /\ ev.op = "auto_switch_duty_status"
       => /\ Cardinality(ev.made) = Cardinality(ev.closed)
          /\ \A pk \in ev.closed :
               \E n \in ev.made :
                   /\ entries[n].driver = entries[pk].driver
                   /\ entries[n].duty_status = "driving"
                   /\ entries[n].end_time = Null
    /\ ev.op = "close_trips_at_midnight"
       => \A pk \in ev.closed :
            /\ \E q \in AutomaticTrips(trips[pk].driver, "active") : q > pk
            /\ \E n \in ev.made :
                 /\ entries[n].driver = trips[pk].driver
                 /\ entries[n].duty_status = "off_duty"


\* C30: one rollover of one trip creates exactly one off_duty interval for
\* the driver, not more: a rollover tick inside the window of a driver who
\* has an active automatic trip makes the driver's intervals grow by exactly
\* one, an open off_duty interval.
C30_RolloverAddsOneInterval ==
    [][ev'.op = "close_trips_at_midnight" =>
         \A d \in Drivers :
             (InCloseWindow(d, now) /\ Cardinality(AutomaticTrips(d, "active")) = 1)
             => /\ Cardinality({n \in Appended : entries'[n].driver = d}) = 1
                /\ \A n \in Appended :
                     entries'[n].driver = d
                     => /\ entries'[n].duty_status = "off_duty"
                        /\ entries'[n].end_time = Null]_vars

====
